---- MODULE Spec2Model ----
(***************************************************************************)
(* A model of the Flask OCR service of src/app.py: the GET /extract        *)
(* handler extract_document_fields, the module-level toggle OCR_APPROACH   *)
(* it reads, and the text normalisation it applies to the AI's answer.     *)
(*                                                                         *)
(* A text is a sequence of symbols.  A symbol is one character (a          *)
(* backtick, a whitespace character, one of the letters of the language    *)
(* tag) or a chunk: a run of characters that holds no backtick and no      *)
(* leading or trailing whitespace (a JSON document, a piece of prose, an   *)
(* error message).  The two field names of the prompt are written          *)
(* "degem" (the vehicle model field) and "ramat_gimur" (the trim level     *)
(* field).                                                                 *)
(***************************************************************************)
EXTENDS Integers, Sequences, FiniteSets, TLC

VARIABLES OCR_APPROACH, pc, image_url, calls, io, sent, response

vars == <<OCR_APPROACH, pc, image_url, calls, io, sent, response>>

(***************************************************************************)
(* Bounds of the model.                                                    *)
(***************************************************************************)
\* the number of requests the process is given
NumReqs == 2
\* the longest run of whitespace put around a fence or a document
MaxPad == 1

Reqs == 1..NumReqs

(***************************************************************************)
(* Strings: str.strip, str.startswith, str.endswith, str.replace(.., 1).   *)
(***************************************************************************)
Whitespace == {" ", "\n"}

\* s without its leading and trailing whitespace
Trimmed(s) ==
  LET kept == {i \in 1..Len(s) : s[i] \notin Whitespace}
  IN  IF kept = {} THEN <<>>
      ELSE SubSeq(s, CHOOSE i \in kept : \A k \in kept : i <= k,
                     CHOOSE j \in kept : \A k \in kept : k <= j)

\* s.strip() (the argument is bound, so that it is evaluated once)
Strip(s) == CHOOSE out \in {Trimmed(t) : t \in {s}} : TRUE

StartsWith(s, p) == Len(s) >= Len(p) /\ SubSeq(s, 1, Len(p)) = p

EndsWith(s, p) == Len(s) >= Len(p) /\ SubSeq(s, Len(s) - Len(p) + 1, Len(s)) = p

\* s.replace(old, '', 1): the first occurrence of old is removed
ReplaceFirst(s, old) ==
  LET at == {i \in 1..(Len(s) - Len(old) + 1) : SubSeq(s, i, i + Len(old) - 1) = old}
  IN  IF at = {} THEN s
      ELSE LET i == CHOOSE j \in at : \A k \in at : j <= k
           IN  SubSeq(s, 1, i - 1) \o SubSeq(s, i + Len(old), Len(s))

\* t occurs in s as a contiguous run
Contains(s, t) ==
  \E i \in 1..(Len(s) - Len(t) + 1) : SubSeq(s, i, i + Len(t) - 1) = t

\* the backtick character (the lexer of TLA+ takes none inside a string)
Backtick == "<backtick>"
Fence == <<Backtick, Backtick, Backtick>>
FenceJson == Fence \o <<"j", "s", "o", "n">>

(***************************************************************************)
(* JSON: the documents the AI may write, json.loads and json.dumps.        *)
(***************************************************************************)
FieldModel == "degem"
FieldTrim == "ramat_gimur"

JObject(members) == [type |-> "object", members |-> members]
JArray(items) == [type |-> "array", members |-> items]

TwoFields == JObject({<<FieldModel, "GD9EL5R">>, <<FieldTrim, "GX">>})
OneField == JObject({<<FieldModel, "GD9EL5R">>})
ThreeFields ==
  JObject({<<FieldModel, "GD9EL5R">>, <<FieldTrim, "GX">>, <<"note", "blurred">>})
FieldList == JArray({<<"0", "GD9EL5R">>, <<"1", "GX">>})

\* chunks that are JSON documents, with the value each one denotes
DocTwoFields == "{\"degem\": \"GD9EL5R\", \"ramat_gimur\": \"GX\"}"
DocTwoFieldsLoose == "{ \"ramat_gimur\" : \"GX\" , \"degem\" : \"GD9EL5R\" }"
DocOneField == "{\"degem\": \"GD9EL5R\"}"
DocThreeFields == "{\"degem\": \"GD9EL5R\", \"note\": \"blurred\", \"ramat_gimur\": \"GX\"}"
DocFieldList == "[\"GD9EL5R\", \"GX\"]"
\* chunks that are not JSON
DocProse == "degem: GD9EL5R, ramat_gimur: GX"
DocTruncated == "{\"degem\": \"GD9EL5R\", \"ramat_gi"

JsonDocs == {DocTwoFields, DocTwoFieldsLoose, DocOneField, DocThreeFields, DocFieldList}
Docs == JsonDocs \cup {DocProse, DocTruncated}

DocValue(d) ==
  CASE d = DocTwoFields -> TwoFields
    [] d = DocTwoFieldsLoose -> TwoFields
    [] d = DocOneField -> OneField
    [] d = DocThreeFields -> ThreeFields
    [] d = DocFieldList -> FieldList

JSONDecodeError(msg) == [ok |-> FALSE, value |-> JArray({}), msg |-> msg]

\* json.loads(s): whitespace around the one document is skipped; anything
\* else (no document, a backtick, a letter of the tag, text after the
\* document) raises JSONDecodeError
JsonLoads(s) ==
  LET Decode(t) ==
        IF Len(t) = 1 /\ t[1] \in JsonDocs
          THEN [ok |-> TRUE, value |-> DocValue(t[1]), msg |-> ""]
          ELSE IF t # <<>> /\ t[1] \in JsonDocs
                 THEN JSONDecodeError("Extra data")
                 ELSE JSONDecodeError("Expecting value")
  IN  CHOOSE out \in {Decode(t) : t \in {Strip(s)}} : TRUE

\* json.dumps(value): the one canonical document of the value
JsonDumps(v) ==
  CASE v = TwoFields -> DocTwoFields
    [] v = OneField -> DocOneField
    [] v = ThreeFields -> DocThreeFields
    [] v = FieldList -> DocFieldList

Keys(v) == {m[1] : m \in v.members}

(***************************************************************************)
(* The texts the AI may answer with: a document, bare or inside a fence.   *)
(***************************************************************************)
RECURSIVE PadsUpTo(_)
PadsUpTo(n) ==
  IF n = 0 THEN {<<>>}
  ELSE LET shorter == PadsUpTo(n - 1)
       IN  shorter \cup {p \o <<w>> : p \in shorter, w \in Whitespace}

Pads == PadsUpTo(MaxPad)
Openings == {<<>>, Fence, FenceJson}
Closings == {<<>>, Fence}

Wrap(doc, opening, closing, outer, inner) ==
  outer \o opening \o inner \o <<doc>> \o inner \o closing \o outer

AllTexts ==
  {Wrap(d, o, c, outer, inner) :
     d \in Docs, o \in Openings, c \in Closings, outer \in Pads, inner \in Pads}

\* the answers the requests of a concurrent run are given
CoreTexts ==
  { Wrap(DocTwoFields, <<>>, <<>>, <<>>, <<>>),
    Wrap(DocTwoFieldsLoose, FenceJson, Fence, <<>>, <<"\n">>),
    Wrap(DocTwoFields, Fence, Fence, <<>>, <<"\n">>),
    Wrap(DocFieldList, <<>>, <<>>, <<"\n">>, <<>>),
    Wrap(DocProse, <<>>, <<>>, <<>>, <<>>),
    Wrap(DocTruncated, FenceJson, Fence, <<>>, <<"\n">>) }

(***************************************************************************)
(* The configuration and what the outside world may answer.                *)
(***************************************************************************)
\* os.environ.get('OCR_APPROACH', 'direct'): any string; "other" stands for
\* every value that is neither of the two documented ones
Approaches == {"reference_based", "direct", "other"}

\* request.args.get('image_url'): None when the parameter is absent
None == "<None>"
BadURL == "not-a-url"
GoodURL == "http://host/doc.jpg"
URLs == {None, "", BadURL, GoodURL}

Exception(type, msg) == [type |-> type, msg |-> msg]
NoException == Exception("", "")
MissingSchema == Exception("MissingSchema", "Invalid URL: No scheme supplied")
ConnectTimeout == Exception("ConnectTimeout", "Connection to host timed out")
UnidentifiedImageError ==
  Exception("UnidentifiedImageError", "cannot identify image file")
ResourceExhausted == Exception("ResourceExhausted", "429 Resource has been exhausted")
NoTextError == Exception("ValueError", "response.text requires a valid Part")
\* the types that `except requests.exceptions.RequestException` catches
RequestExceptions == {"MissingSchema", "ConnectTimeout", "HTTPError"}

\* what requests.get met: an exception, or a final status with the content
Fetched(exc, status, content) == [exc |-> exc, status |-> status, content |-> content]
NoFetch == Fetched(NoException, 0, "none")

TargetOutcomes(url) ==
  IF url = BadURL THEN {Fetched(MissingSchema, 0, "none")}
  ELSE {Fetched(ConnectTimeout, 0, "none")}
         \cup {Fetched(NoException, s, "none") : s \in {404, 503}}
         \cup {Fetched(NoException, s, c) : s \in {200, 300}, c \in {"image", "garbage"}}

ReferenceOutcomes ==
  {Fetched(ConnectTimeout, 0, "none"), Fetched(NoException, 404, "none")}
    \cup {Fetched(NoException, 200, c) : c \in {"image", "garbage"}}

\* what model.generate_content met: it raised, it returned a response whose
\* .text raises, or it returned a response with a text
Answer(kind, text) == [kind |-> kind, text |-> text]
NoAnswer == Answer("none", <<>>)
AIOutcomes(texts) ==
  {Answer("raise", <<>>), Answer("no_text", <<>>)} \cup {Answer("text", t) : t \in texts}

\* a raise_for_status that lets the 5xx statuses through
raise_for_status_4xx(status) ==
  IF 400 <= status /\ status < 500 THEN Exception("HTTPError", "Client Error for url")
  ELSE NoException

\* Response.raise_for_status()
raise_for_status(status) ==
  IF 400 <= status /\ status < 500 THEN Exception("HTTPError", "Client Error for url")
  ELSE IF 500 <= status /\ status < 600 THEN Exception("HTTPError", "Server Error for url")
  ELSE NoException

(***************************************************************************)
(* The responses of the handler.                                           *)
(***************************************************************************)
Response(body, status, mimetype) == [status |-> status, mimetype |-> mimetype, body |-> body]
NoResponse == Response(<<>>, 0, "")

MissingParamResponse ==
  Response(<<"Error: Please provide an 'image_url' parameter.">>, 400, "text/plain")

FetchErrorResponse(e) ==
  Response(<<"Error fetching image from URL: ", e.msg>>, 400, "text/plain")

ProcessingErrorResponse(e) ==
  Response(<<"Error processing image: ", e.msg>>, 500, "text/plain")

\* a reference failure reported as the client's fault
ReferenceErrorResponse400(e) ==
  Response(<<"Error fetching reference image: ", e.msg>>, 400, "text/plain")

ReferenceErrorResponse(e) ==
  Response(<<"Error fetching reference image: ", e.msg>>, 500, "text/plain")

\* a success returned as plain text
jsonifyAsText(json_data) == Response(<<JsonDumps(json_data)>>, 200, "text/plain")

jsonify(json_data) == Response(<<JsonDumps(json_data)>>, 200, "application/json")

\* a text that does not parse passed through as a success
ParseErrorPassThrough(e, text) == Response(text, 200, "text/plain; charset=utf-8")

ParseErrorResponse(e, text) ==
  Response(<<"Error parsing JSON response: ", e, "\nResponse text: ">> \o text,
           500, "text/plain; charset=utf-8")

\* an AI failure reported without the type of the error
AIErrorResponseNoType(e) ==
  Response(<<"Error communicating with the AI model:\nError Message: ", e.msg>>,
           500, "text/plain; charset=utf-8")

AIErrorResponse(e) ==
  Response(<<"Error communicating with the AI model:\nError Type: ", e.type,
             "\nError Message: ", e.msg>>,
           500, "text/plain; charset=utf-8")

\* a normalisation that leaves the closing fence in place
StripCodeFenceOpenOnly(text) ==
  LET stripped == Strip(text)
      opened == IF StartsWith(stripped, FenceJson)
                  THEN ReplaceFirst(stripped, FenceJson) ELSE stripped
  IN  Strip(opened)

\* the markers the handler removes from the AI's text before parsing it
StripCodeFence(text) ==
  LET stripped == Strip(text)
      opened == IF StartsWith(stripped, FenceJson)
                  THEN ReplaceFirst(stripped, FenceJson) ELSE stripped
      closed == IF EndsWith(opened, Fence)
                  THEN SubSeq(opened, 1, Len(opened) - 3) ELSE opened
  IN  Strip(closed)

\* the try block around the AI call, reference branch
RespondReference(ai) ==
  IF ai.kind = "raise" THEN AIErrorResponse(ResourceExhausted)
  ELSE IF ai.kind = "no_text" THEN AIErrorResponse(NoTextError)
  ELSE LET response_text == StripCodeFence(ai.text)
           json_data == JsonLoads(response_text)
       IN  IF json_data.ok THEN jsonify(json_data.value)
           ELSE ParseErrorResponse(json_data.msg, ai.text)

\* a direct branch that reports the normalised text, not the AI's own
RespondDirectStripped(ai) ==
  IF ai.kind = "raise" THEN AIErrorResponse(ResourceExhausted)
  ELSE IF ai.kind = "no_text" THEN AIErrorResponse(NoTextError)
  ELSE LET response_text == StripCodeFence(ai.text)
           json_data == JsonLoads(response_text)
       IN  IF json_data.ok THEN jsonify(json_data.value)
           ELSE ParseErrorResponse(json_data.msg, response_text)

\* the try block around the AI call, direct branch
RespondDirect(ai) ==
  IF ai.kind = "raise" THEN AIErrorResponse(ResourceExhausted)
  ELSE IF ai.kind = "no_text" THEN AIErrorResponse(NoTextError)
  ELSE LET response_text == StripCodeFence(ai.text)
           json_data == JsonLoads(response_text)
       IN  IF json_data.ok THEN jsonify(json_data.value)
           ELSE ParseErrorResponse(json_data.msg, ai.text)

\* a reference branch that leaves the reference image out
ContentsReferenceNoImage == <<"prompt_reference", "new_image">>

\* the contents handed to model.generate_content
ContentsReference == <<"prompt_reference", "reference_image", "new_image">>
ContentsDirect == <<"prompt_direct", "new_image">>

\* a check that takes the empty string for a URL
IsMissingNoneOnly(url) == url = None

\* `not image_url`
IsMissing(url) == url = None \/ url = ""

\* the branch taken at `if OCR_APPROACH == 'reference_based'`
Branch(approach) ==
  IF approach = "reference_based" THEN "fetch_reference" ELSE "generate_direct"

(***************************************************************************)
(* The state.                                                              *)
(*   OCR_APPROACH  the toggle the module reads when it is loaded           *)
(*   pc[r]         where request r stands in the handler                   *)
(*   image_url[r]  the query parameter of request r                        *)
(*   calls[r]      the external operations the handler ran for r, in order *)
(*   io[r]         what each of them met                                   *)
(*   sent[r]       the contents handed to the AI for r                     *)
(*   response[r]   the response returned for r                             *)
(***************************************************************************)
GetTarget == "requests.get(image_url)"
OpenTarget == "Image.open(new_image_bytes)"
GetReference == "requests.get(REFERENCE_IMAGE_URL)"
OpenReference == "Image.open(reference)"
GenerateContent == "model.generate_content"
ParseJson == "json.loads"

InFlight == {"fetch_target", "fetch_reference", "generate_reference", "generate_direct"}

NoIO == [target |-> NoFetch, reference |-> NoFetch, ai |-> NoAnswer]

Init ==
  /\ OCR_APPROACH \in Approaches
  /\ pc = [r \in Reqs |-> "idle"]
  /\ image_url = [r \in Reqs |-> None]
  /\ calls = [r \in Reqs |-> <<>>]
  /\ io = [r \in Reqs |-> NoIO]
  /\ sent = [r \in Reqs |-> <<>>]
  /\ response = [r \in Reqs |-> NoResponse]

\* the handler returns resp for r
Return(r, resp) ==
  /\ response' = [response EXCEPT ![r] = resp]
  /\ pc' = [pc EXCEPT ![r] = "done"]

\* a request arrives: the parameter is read and checked
Request(r) ==
  /\ pc[r] = "idle"
  /\ \E url \in URLs :
       /\ image_url' = [image_url EXCEPT ![r] = url]
       /\ IF IsMissing(url)
            THEN Return(r, MissingParamResponse)
            ELSE /\ pc' = [pc EXCEPT ![r] = "fetch_target"]
                 /\ UNCHANGED response
  /\ UNCHANGED <<OCR_APPROACH, calls, io, sent>>

\* what a try block of fetch, status check and decode raises, if anything
Raised(got) ==
  IF got.exc # NoException THEN got.exc
  ELSE IF raise_for_status(got.status) # NoException THEN raise_for_status(got.status)
  ELSE IF got.content # "image" THEN UnidentifiedImageError
  ELSE NoException

\* the target image is fetched and decoded, and the branch is chosen
FetchTarget(r) ==
  /\ pc[r] = "fetch_target"
  /\ \E got \in TargetOutcomes(image_url[r]) :
       LET e == Raised(got)
       IN  /\ io' = [io EXCEPT ![r].target = got]
           /\ calls' = [calls EXCEPT ![r] =
                          @ \o (IF e.type \in RequestExceptions
                                  THEN <<GetTarget>> ELSE <<GetTarget, OpenTarget>>)]
           /\ IF e = NoException
                THEN /\ pc' = [pc EXCEPT ![r] = Branch(OCR_APPROACH)]
                     /\ UNCHANGED response
                ELSE IF e.type \in RequestExceptions
                       THEN Return(r, FetchErrorResponse(e))
                       ELSE Return(r, ProcessingErrorResponse(e))
  /\ UNCHANGED <<OCR_APPROACH, image_url, sent>>

\* reference branch: the reference image is fetched and decoded
FetchReference(r) ==
  /\ pc[r] = "fetch_reference"
  /\ \E got \in ReferenceOutcomes :
       LET e == Raised(got)
       IN  /\ io' = [io EXCEPT ![r].reference = got]
           /\ calls' = [calls EXCEPT ![r] =
                          @ \o (IF e.type \in RequestExceptions
                                  THEN <<GetReference>> ELSE <<GetReference, OpenReference>>)]
           /\ IF e = NoException
                THEN /\ pc' = [pc EXCEPT ![r] = "generate_reference"]
                     /\ UNCHANGED response
                ELSE Return(r, ReferenceErrorResponse(e))
  /\ UNCHANGED <<OCR_APPROACH, image_url, sent>>

\* the external operations of the try block around the AI call
GenerateCalls(ai) ==
  IF ai.kind = "text" THEN <<GenerateContent, ParseJson>> ELSE <<GenerateContent>>

\* reference branch: the AI is called, its answer parsed and returned
GenerateReference(r, texts) ==
  /\ pc[r] = "generate_reference"
  /\ \E ai \in AIOutcomes(texts) :
       /\ sent' = [sent EXCEPT ![r] = ContentsReference]
       /\ io' = [io EXCEPT ![r].ai = ai]
       /\ calls' = [calls EXCEPT ![r] = @ \o GenerateCalls(ai)]
       /\ Return(r, RespondReference(ai))
  /\ UNCHANGED <<OCR_APPROACH, image_url>>

\* direct branch: the AI is called, its answer parsed and returned
GenerateDirect(r, texts) ==
  /\ pc[r] = "generate_direct"
  /\ \E ai \in AIOutcomes(texts) :
       /\ sent' = [sent EXCEPT ![r] = ContentsDirect]
       /\ io' = [io EXCEPT ![r].ai = ai]
       /\ calls' = [calls EXCEPT ![r] = @ \o GenerateCalls(ai)]
       /\ Return(r, RespondDirect(ai))
  /\ UNCHANGED <<OCR_APPROACH, image_url>>

\* the process is started again (a changed config var restarts it): the
\* module is loaded anew and the requests in flight get no response
Restart ==
  /\ OCR_APPROACH' \in Approaches
  /\ pc' = [r \in Reqs |-> IF pc[r] \in InFlight THEN "aborted" ELSE pc[r]]
  /\ UNCHANGED <<image_url, calls, io, sent, response>>

\* the steps of the handler after the parameter check
Handle(r, texts) ==
  \/ FetchTarget(r)
  \/ FetchReference(r)
  \/ GenerateReference(r, texts)
  \/ GenerateDirect(r, texts)

\* one process serving NumReqs requests, threads interleaved
Next == \E r \in Reqs : Request(r) \/ Handle(r, CoreTexts)

Spec == Init /\ [][Next]_vars

\* every call of the handler returns or raises, and every thread is scheduled
FairSpec == Spec /\ \A r \in Reqs : WF_vars(Handle(r, CoreTexts))

\* one request, with every text of AllTexts as a possible answer
NextSingle == Request(1) \/ Handle(1, AllTexts)

SpecSingle == Init /\ [][NextSingle]_vars

\* the process is redeployed now and then, under any value of the toggle
NextDeploy == Next \/ Restart

SpecDeploy == Init /\ [][NextDeploy]_vars

(***************************************************************************)
(* What the claims speak of, read off the state.                           *)
(***************************************************************************)
Done(r) == pc[r] = "done"
Called(r, op) == \E i \in 1..Len(calls[r]) : calls[r][i] = op
Times(r, op) == Cardinality({i \in 1..Len(calls[r]) : calls[r][i] = op})
IsPrefix(s, t) == Len(s) <= Len(t) /\ SubSeq(t, 1, Len(s)) = s

\* requests.get raised, or the host answered 4xx or 5xx
FetchFailed(got) == got.exc # NoException \/ (400 <= got.status /\ got.status < 600)
\* requests.get raised, or the host answered anything but 2xx
FetchNot2xx(got) == got.exc # NoException \/ ~(200 <= got.status /\ got.status < 300)
\* the text of the error a failed fetch raises
FetchErrorText(got) ==
  IF got.exc # NoException THEN got.exc.msg
  ELSE IF got.status < 500 THEN "Client Error for url" ELSE "Server Error for url"

TargetFailed(r) == Called(r, GetTarget) /\ FetchFailed(io[r].target)
TargetUndecodable(r) ==
  Called(r, GetTarget) /\ ~FetchFailed(io[r].target) /\ io[r].target.content # "image"
ReferenceFailed(r) ==
  Called(r, GetReference)
    /\ (FetchFailed(io[r].reference) \/ io[r].reference.content # "image")
AIFailed(r) == io[r].ai.kind \in {"raise", "no_text"}
ParseFailed(r) ==
  io[r].ai.kind = "text" /\ ~JsonLoads(StripCodeFence(io[r].ai.text)).ok

IsJsonBody(resp) == resp.mimetype = "application/json" /\ JsonLoads(resp.body).ok
IsPlainText(resp) == resp.mimetype \in {"text/plain", "text/plain; charset=utf-8"}
HasExactlyTheTwoKeys(resp) ==
  /\ IsJsonBody(resp)
  /\ JsonLoads(resp.body).value.type = "object"
  /\ Keys(JsonLoads(resp.body).value) = {FieldModel, FieldTrim}

ViaReference(r) == Called(r, GenerateContent) /\ Called(r, GetReference)
ViaDirect(r) == Called(r, GenerateContent) /\ ~Called(r, GetReference)

(***************************************************************************)
(* The claims.                                                             *)
(***************************************************************************)

\* C1: a request whose image_url is absent or empty ends with HTTP 400, and
\* no image is fetched and the AI is not called for it.
C1_MissingParameter ==
  \A r \in Reqs :
    (pc[r] # "idle" /\ image_url[r] \in {None, ""}) =>
      /\ Done(r)
      /\ response[r].status = 400
      /\ calls[r] = <<>>
      /\ sent[r] = <<>>

C1_Witness ==
  \E r1, r2 \in Reqs :
    /\ Done(r1) /\ image_url[r1] = None /\ response[r1].status = 400
    /\ Done(r2) /\ image_url[r2] = "" /\ response[r2].status = 400

\* C2 as stated: a target fetch that fails at the network level or is
\* answered with a non-2xx status ends with HTTP 400 and the error text; a
\* fetch that succeeds with undecodable bytes ends with HTTP 500; the AI is
\* called in neither case.
C2_AsStated ==
  \A r \in Reqs :
    Called(r, GetTarget) =>
      /\ FetchNot2xx(io[r].target) =>
           /\ Done(r) /\ response[r].status = 400
           /\ Contains(response[r].body, <<FetchErrorText(io[r].target)>>)
           /\ ~Called(r, GenerateContent)
      /\ (~FetchNot2xx(io[r].target) /\ io[r].target.content # "image") =>
           /\ Done(r) /\ response[r].status = 500
           /\ ~Called(r, GenerateContent)

\* C2 amended: a target fetch that raises (an invalid URL, a network
\* failure) or is answered with a 4xx or 5xx status ends with HTTP 400 and
\* the error text; a fetch that did not fail so and whose bytes cannot be
\* decoded ends with HTTP 500; the AI is called in neither case.
C2_FetchErrors ==
  \A r \in Reqs :
    Called(r, GetTarget) =>
      /\ FetchFailed(io[r].target) =>
           /\ Done(r) /\ response[r].status = 400
           /\ Contains(response[r].body, <<FetchErrorText(io[r].target)>>)
           /\ ~Called(r, GenerateContent)
      /\ (~FetchFailed(io[r].target) /\ io[r].target.content # "image") =>
           /\ Done(r) /\ response[r].status = 500
           /\ ~Called(r, GenerateContent)

C2_Witness ==
  \E r1, r2 \in Reqs :
    /\ Done(r1) /\ io[r1].target.status = 503 /\ response[r1].status = 400
    /\ Done(r2) /\ io[r2].target.status = 200 /\ io[r2].target.content = "garbage"
    /\ response[r2].status = 500

\* C3 as stated: in direct mode, once the target image is fetched and
\* decoded and the AI call returned a text, whatever the text, the response
\* is HTTP 200 with a JSON object of exactly the two field keys.
C3_AsStated ==
  \A r \in Reqs :
    (Done(r) /\ OCR_APPROACH # "reference_based" /\ io[r].ai.kind = "text") =>
      /\ response[r].status = 200
      /\ HasExactlyTheTwoKeys(response[r])

\* the texts that are an object of the two keys, bare or in a json fence
TwoFieldTexts ==
  {Wrap(d, f[1], f[2], outer, inner) :
     d \in {DocTwoFields, DocTwoFieldsLoose},
     f \in {<<<<>>, <<>>>>, <<FenceJson, Fence>>},
     outer \in Pads, inner \in Pads}

\* C3 amended: in direct mode, once the target image is fetched and decoded
\* and the AI call returned a text that is a JSON object of exactly the two
\* field keys, bare or wrapped in a json code fence, the response is HTTP
\* 200 with a JSON object of exactly the two field keys.
C3_TwoKeys ==
  \A r \in Reqs :
    (Done(r) /\ OCR_APPROACH # "reference_based" /\ io[r].ai.kind = "text"
       /\ io[r].ai.text \in TwoFieldTexts) =>
      /\ response[r].status = 200
      /\ HasExactlyTheTwoKeys(response[r])

C3_Witness ==
  \E r \in Reqs :
    /\ Done(r) /\ OCR_APPROACH = "direct"
    /\ io[r].ai.text = Wrap(DocTwoFieldsLoose, FenceJson, Fence, <<"\n">>, <<"\n">>)
    /\ response[r].status = 200
    /\ HasExactlyTheTwoKeys(response[r])

\* what the handler returns for a text in the branch request r took
Respond(r, text) ==
  IF ViaReference(r) THEN RespondReference(Answer("text", text))
  ELSE RespondDirect(Answer("text", text))

\* C4: a text that parses as JSON, wrapped in a code fence (opened with or
\* without the json tag, closed, with whitespace around), gets the response
\* the bare text gets, in both modes.
C4_FenceInsensitive ==
  \A r \in Reqs :
    (Done(r) /\ io[r].ai.kind = "text") =>
      \A d \in JsonDocs, opening \in {Fence, FenceJson}, outer \in Pads, inner \in Pads :
        io[r].ai.text = Wrap(d, opening, Fence, outer, inner) =>
          /\ response[r].status = 200
          /\ response[r] = Respond(r, <<d>>)

\* C5: in both modes a text that does not parse as JSON after the fence is
\* stripped ends with HTTP 500, and the body holds the text as the AI gave
\* it, after a diagnostic; never a 200, never the bare text.
C5_ParseFailure ==
  \A r \in Reqs :
    (Done(r) /\ ParseFailed(r)) =>
      /\ response[r].status = 500
      /\ Contains(response[r].body, io[r].ai.text)
      /\ Len(response[r].body) > Len(io[r].ai.text)
      /\ IsPlainText(response[r])

C5_Witness ==
  \E r \in Reqs :
    /\ Done(r) /\ ViaReference(r)
    /\ io[r].ai.text = Wrap(DocTruncated, FenceJson, Fence, <<" ">>, <<"\n">>)
    /\ response[r].status = 500
    /\ Contains(response[r].body, io[r].ai.text)

\* C6: in both modes an AI call that raises, or a response without a
\* readable text, ends with HTTP 500 whose body names the type of the error
\* and its message.
C6_AIFailure ==
  \A r \in Reqs :
    (Called(r, GenerateContent) /\ AIFailed(r)) =>
      LET e == IF io[r].ai.kind = "raise" THEN ResourceExhausted ELSE NoTextError
      IN  /\ Done(r)
          /\ response[r].status = 500
          /\ Contains(response[r].body, <<e.type>>)
          /\ Contains(response[r].body, <<e.msg>>)

C6_Witness ==
  \E r1, r2 \in Reqs :
    /\ Done(r1) /\ ViaReference(r1) /\ io[r1].ai.kind = "raise"
    /\ response[r1].status = 500
    /\ Done(r2) /\ ViaReference(r2) /\ io[r2].ai.kind = "no_text"
    /\ response[r2].status = 500

\* the state part of C7
C7_Strategy ==
  \A r \in Reqs :
    IF OCR_APPROACH = "reference_based"
      THEN Called(r, GenerateContent) =>
             /\ Times(r, GetReference) = 1
             /\ io[r].reference.exc = NoException
             /\ io[r].reference.status = 200
             /\ io[r].reference.content = "image"
             /\ sent[r] = <<"prompt_reference", "reference_image", "new_image">>
      ELSE /\ ~Called(r, GetReference)
           /\ io[r].reference = NoFetch
           /\ Called(r, GenerateContent) => sent[r] = <<"prompt_direct", "new_image">>

\* C7: the toggle read at process start never changes; in reference-based
\* mode a request that reaches the AI has fetched the reference image and
\* sends prompt, reference image and target image; in direct mode the
\* reference image is never fetched and the AI gets prompt and target image.
C7_FixedStrategy == []C7_Strategy /\ [][OCR_APPROACH' = OCR_APPROACH]_vars

C7_Witness ==
  \E r1, r2 \in Reqs :
    /\ r1 # r2
    /\ OCR_APPROACH = "reference_based"
    /\ Done(r1) /\ Called(r1, GenerateContent)
    /\ Done(r2) /\ Called(r2, GenerateContent)

\* C8 as stated: the success body is plain text under one configuration and
\* JSON under another, so once successes of both branches were returned one
\* of them is plain text and one is JSON.
C8_AsStated ==
  ((\E r \in Reqs : ViaReference(r) /\ response[r].status = 200)
     /\ (\E r \in Reqs : ViaDirect(r) /\ response[r].status = 200)) =>
    /\ \E r \in Reqs : response[r].status = 200 /\ IsPlainText(response[r])
    /\ \E r \in Reqs : response[r].status = 200 /\ IsJsonBody(response[r])

\* C8 amended: under every configuration the body of a successful response
\* is JSON (the value the AI returned); none returns plain text.
C8_SuccessIsJson ==
  \A r \in Reqs :
    response[r].status = 200 => (IsJsonBody(response[r]) /\ ~IsPlainText(response[r]))

C8_Witness ==
  /\ \E r \in Reqs : ViaReference(r) /\ response[r].status = 200
  /\ \E r \in Reqs : ViaDirect(r) /\ response[r].status = 200

\* C9: no external operation is attempted twice for a request, the first
\* failure ends the request, 400 is returned only for a missing parameter or
\* a failed target fetch, and 500 for every failure after that.
C9_NoRetry ==
  \A r \in Reqs :
    /\ \A op \in {GetTarget, OpenTarget, GetReference, OpenReference,
                  GenerateContent, ParseJson} : Times(r, op) <= 1
    /\ TargetFailed(r) => (Done(r) /\ calls[r] = <<GetTarget>>)
    /\ TargetUndecodable(r) =>
         (Done(r) /\ calls[r] = <<GetTarget, OpenTarget>> /\ response[r].status = 500)
    /\ ReferenceFailed(r) =>
         (Done(r) /\ ~Called(r, GenerateContent) /\ response[r].status = 500)
    /\ (Called(r, GenerateContent) /\ AIFailed(r)) =>
         (Done(r) /\ ~Called(r, ParseJson) /\ response[r].status = 500)
    /\ (Called(r, GenerateContent) /\ ParseFailed(r)) =>
         (Done(r) /\ response[r].status = 500)
    /\ response[r].status = 400 =>
         (image_url[r] \in {None, ""} \/ TargetFailed(r))

C9_Witness ==
  \E r1, r2 \in Reqs :
    /\ Done(r1) /\ TargetFailed(r1) /\ response[r1].status = 400
    /\ Done(r2) /\ ReferenceFailed(r2) /\ response[r2].status = 500

\* the order of the external operations in the branch of the configuration
Order ==
  IF OCR_APPROACH = "reference_based"
    THEN <<GetTarget, OpenTarget, GetReference, OpenReference, GenerateContent, ParseJson>>
    ELSE <<GetTarget, OpenTarget, GenerateContent, ParseJson>>

\* the state part of C10
C10_OneResponse ==
  /\ \A r \in Reqs :
       /\ Done(r) <=> response[r] # NoResponse
       /\ Done(r) => response[r].status \in {200, 400, 500}
       /\ IsPrefix(calls[r], Order)
       /\ calls[r] # <<>> => image_url[r] \notin {None, ""}
       /\ response[r].status = 200 =>
            /\ calls[r] = Order
            /\ io[r].ai.kind = "text"
            /\ JsonLoads(StripCodeFence(io[r].ai.text)).ok
  /\ \A r1, r2 \in Reqs :
       (Done(r1) /\ Done(r2) /\ image_url[r1] = image_url[r2] /\ io[r1] = io[r2]) =>
         response[r1] = response[r2]

\* C10: every request ends with one response, of status 200, 400 or 500,
\* which is never replaced; the external operations run in the fixed order;
\* a 200 comes only after the AI returned a text that parsed; the response
\* of a request is a function of what that request met, whatever the other
\* requests do; and every request that arrived ends.
C10_Terminates ==
  /\ []C10_OneResponse
  /\ [][\A r \in Reqs :
          /\ response[r] # NoResponse => response'[r] = response[r]
          /\ pc[r] # "idle" => pc'[r] # "idle"
          /\ Done(r) => Done(r)']_vars
  /\ \A r \in Reqs : <>[](pc[r] = "idle" \/ Done(r))

C10_Witness ==
  \E r1, r2 \in Reqs :
    /\ r1 # r2
    /\ Done(r1) /\ response[r1].status = 200
    /\ Done(r2) /\ response[r2].status = 500 /\ ParseFailed(r2)

====
